---- MODULE Spec2Model ----
(***************************************************************************)
(* The global style registry of zoon (crates/zoon/src/style.rs):           *)
(* GlobalStyles owns one CSSStyleSheet and a MonotonicIds registry;        *)
(* style_group / style_group_droppable insert one rule per StyleGroup and  *)
(* spawn one task per dynamic CSS property; dropping a StyleGroupHandle    *)
(* removes the rule again.                                                 *)
(*                                                                         *)
(* The program runs on the single wasm thread: a structural call runs to   *)
(* its end before the executor polls any task.  The calls are split into   *)
(* their statements (pc) so that the order of the statements and the span  *)
(* of the ids lock are visible; tasks are polled only when pc = "idle".    *)
(* A panic aborts the program: no action is enabled afterwards.            *)
(*                                                                         *)
(* Strings are sequences of tokens, so that [prefix, name].concat() is     *)
(* sequence concatenation and "" is the empty sequence.                    *)
(***************************************************************************)
EXTENDS Integers, Sequences, FiniteSets, TLC

\* ------ bounds ------

\* how many style groups are applied in one run
MaxAllocs == 4

\* how many style groups are applied in one run that records the streams
MaxStreamRules == 1

\* how many items of the signals one run records
MaxItems == 3

\* how many calls of send_up_msg are made in one run
MaxUpMsgs == 2

\* ------ strings and sequences ------

EmptyStr == <<>>

Concat(a, b) == a \o b

Range(s) == {s[i] : i \in 1..Len(s)}

\* Vec::push / CSSStyleSheet positions are 0-based
InsertAt(s, index, e) ==
    [i \in 1..(Len(s) + 1) |->
        IF i <= index THEN s[i] ELSE IF i = index + 1 THEN e ELSE s[i - 1]]

RemoveAt(s, index) ==
    [i \in 1..(Len(s) - 1) |-> IF i <= index THEN s[i] ELSE s[i + 1]]

\* 0-based position of x in s, -1 when s does not hold x
Rank(s, x) ==
    IF x \in Range(s) THEN (CHOOSE i \in 1..Len(s) : s[i] = x) - 1 ELSE -1

\* Option<T>: None is the empty sequence, Some(v) is <<v>>
None == <<>>

Some(v) == <<v>>

\* ------ the styling backend (web_sys) ------

VARIABLE
    engine      \* the (name, value) pairs the browser's CSS parser accepts

BackendAccepts(name, value) == <<name, value>> \in engine

VENDOR_PREFIXES == << <<"-webkit-">>, <<"-moz-">> >>

\* the (name, value) pairs the engine of the running browser parses
DefaultEngine ==
    { << <<"background">>, <<"purple">> >>,
      << <<"padding">>, <<"10px">> >>,
      << <<"display">>, <<"block">> >>,
      << <<"-webkit-", "user-select">>, <<"none">> >>,
      << <<"display">>, <<"-moz-", "grid">> >> }

\* insertRule rejects a selector it cannot parse
ValidSelector(selector) == selector # "}"

\* the declaration of a CSSFontFaceRule refuses set_property (Firefox)
FontFaceRule(selector) == selector = "@font-face"

\* CSSStyleDeclaration of a new rule: props are the set slots,
\* name -> [value, priority]; readonly when set_property returns Err
EmptyDeclaration(selector) == [props |-> <<>>, readonly |-> FontFaceRule(selector)]

get_property_value(declaration, name) ==
    IF name \in DOMAIN declaration.props
    THEN declaration.props[name].value
    ELSE EmptyStr

remove_property(declaration, name) ==
    [declaration EXCEPT !.props =
        [n \in (DOMAIN declaration.props) \ {name} |-> declaration.props[n]]]

\* setProperty ignores what the engine does not parse; an empty value removes
set_property_with_priority(declaration, name, value, priority) ==
    IF value = EmptyStr THEN remove_property(declaration, name)
    ELSE IF ~BackendAccepts(name, value) THEN declaration
    ELSE [declaration EXCEPT !.props =
            [n \in (DOMAIN declaration.props) \cup {name} |->
                IF n = name THEN [value |-> value, priority |-> priority]
                ELSE declaration.props[n]]]

\* ------ set_css_property ------

\* iter::once("").chain(VENDOR_PREFIXES)
Prefixes == <<EmptyStr>> \o VENDOR_PREFIXES

\* the nested loops, name prefix outer, value prefix inner
PrefixPairs ==
    [k \in 1..(Len(Prefixes) * Len(Prefixes)) |->
        << Prefixes[((k - 1) \div Len(Prefixes)) + 1],
           Prefixes[((k - 1) % Len(Prefixes)) + 1] >>]

\* variant: the call returns when every combination has failed
RECURSIVE PrefixSearchNeverPanics(_, _, _, _, _)
PrefixSearchNeverPanics(declaration, name, value, priority, k) ==
    IF k > Len(PrefixPairs)
    THEN [declaration |-> declaration, panic |-> ""]
    ELSE LET prefixed_name == Concat(PrefixPairs[k][1], name)
             prefixed_value == Concat(PrefixPairs[k][2], value)
             written == set_property_with_priority(declaration, prefixed_name,
                                                prefixed_value, priority)
         IN  IF get_property_value(written, prefixed_name) # EmptyStr
             THEN [declaration |-> written, panic |-> ""]
             ELSE PrefixSearchNeverPanics(written, name, value, priority, k + 1)

\* variant: a combination whose slot is set already is passed over
RECURSIVE PrefixSearchSkipsSetSlots(_, _, _, _, _)
PrefixSearchSkipsSetSlots(declaration, name, value, priority, k) ==
    IF k > Len(PrefixPairs)
    THEN [declaration |-> declaration, panic |-> "invalid CSS property"]
    ELSE LET prefixed_name == Concat(PrefixPairs[k][1], name)
             prefixed_value == Concat(PrefixPairs[k][2], value)
             written == set_property_with_priority(declaration, prefixed_name,
                                                prefixed_value, priority)
         IN  IF get_property_value(declaration, prefixed_name) # EmptyStr
             THEN PrefixSearchSkipsSetSlots(declaration, name, value, priority, k + 1)
             ELSE IF get_property_value(written, prefixed_name) # EmptyStr
             THEN [declaration |-> written, panic |-> ""]
             ELSE PrefixSearchSkipsSetSlots(written, name, value, priority, k + 1)

\* the loops of set_css_property, from combination k on; the panic when none
\* of the combinations reads back
RECURSIVE PrefixSearch(_, _, _, _, _)
PrefixSearch(declaration, name, value, priority, k) ==
    IF k > Len(PrefixPairs)
    THEN [declaration |-> declaration, panic |-> "invalid CSS property"]
    ELSE LET prefixed_name == Concat(PrefixPairs[k][1], name)
             prefixed_value == Concat(PrefixPairs[k][2], value)
             written == set_property_with_priority(declaration, prefixed_name,
                                                prefixed_value, priority)
         IN  IF get_property_value(written, prefixed_name) # EmptyStr
             THEN [declaration |-> written, panic |-> ""]
             ELSE PrefixSearch(written, name, value, priority, k + 1)

set_css_property(declaration, name, value, important) ==
    LET priority == IF important THEN "important" ELSE ""
    IN  IF declaration.readonly
        THEN \* Err(error): logged, and the call returns
             [declaration |-> declaration, panic |-> ""]
        ELSE LET written == set_property_with_priority(declaration, name, value, priority)
             IN  IF get_property_value(written, name) # EmptyStr
                 THEN [declaration |-> written, panic |-> ""]
                 ELSE PrefixSearch(written, name, value, priority, 1)


\* ------ StyleGroup ------

\* static_css_props: a BTreeMap, iterated in the order of its keys
\* dynamic_css_props: the names that carry a signal
\* static_css_classes, dynamic_css_classes: the class names, the latter
\* carrying a signal each
ButtonGroup ==
    [selector |-> ".button",
     static_css_props |-> << [name |-> <<"background">>, value |-> <<"purple">>,
                              important |-> FALSE],
                             [name |-> <<"padding">>, value |-> <<"10px">>,
                              important |-> TRUE],
                             [name |-> <<"user-select">>, value |-> <<"none">>,
                              important |-> FALSE] >>,
     dynamic_css_props |-> {},
     static_css_classes |-> {"shadow"},
     dynamic_css_classes |-> {}]

BoxGroup ==
    [selector |-> ".box",
     static_css_props |-> <<>>,
     dynamic_css_props |-> {<<"display">>},
     static_css_classes |-> {},
     dynamic_css_classes |-> {"active"}]

BadSelectorGroup ==
    [selector |-> "}",
     static_css_props |-> <<>>,
     dynamic_css_props |-> {},
     static_css_classes |-> {},
     dynamic_css_classes |-> {}]

\* two bindings on one rule; the engine takes user-select with a prefix only
SelectGroup ==
    [selector |-> ".select",
     static_css_props |-> <<>>,
     dynamic_css_props |-> {<<"display">>, <<"user-select">>},
     static_css_classes |-> {},
     dynamic_css_classes |-> {}]

Groups == {ButtonGroup, BoxGroup, BadSelectorGroup}

\* what a signal of a dynamic property may yield: Option<Cow<str>>
SignalItems(name) ==
    IF name = <<"display">> THEN {Some(<<"block">>), None}
    ELSE {Some(<<"none">>), None}

\* ------ state ------

VARIABLES
    styleElements, \* the <style> elements GlobalStyles::new has appended to the head
    rule_ids,   \* MonotonicIds: the live ids, in the order they were added
    lock,       \* TRUE while a MutexGuard of rule_ids is alive (ids_lock)
    sheet,      \* css_rules of the sheet: the rule objects, by position
    rules,      \* the CssStyleRule objects ever inserted: object -> record;
                \* removes: history, the calls of remove_rule for the rule
    tasks,      \* the spawned tasks: <<owner, name>> -> record
    handles,    \* the StyleGroupHandle values alive
    pc,         \* the statement the running call is at
    cur,        \* the locals of the running call
    panicked,   \* the panic message, "" while the program runs
    nAlloc,     \* calls of add_new_id so far; names the next rule object
    born,       \* history: live id -> the call (rule object) it was allocated for
    last,       \* history: the state at the entry of the latest structural call;
                \* count0: the rule count before the style_group call that a
                \* drop directly follows and whose handle it drops, else -1
    staleWrite, \* history: a task wrote a declaration whose rule is not in the sheet
    stream,     \* history: the items the tasks consumed, in the order of the polls
    probe,      \* a declaration that set_css_property is called on directly
    connection  \* a Connection and the send_up_msg calls made on it

vars == <<engine, styleElements, rule_ids, lock, sheet, rules, tasks, handles, pc,
          cur, panicked, nAlloc, born, last, staleWrite, stream, probe, connection>>

NoCall ==
    [op |-> "none", group |-> BadSelectorGroup, droppable |-> FALSE,
     id |-> -1, index |-> -1, owner |-> 0, declaration |-> 0]

NoHistory ==
    [op |-> "none", id |-> -1, owner |-> 0, sheet0 |-> <<>>, ids0 |-> <<>>,
     count0 |-> -1]

NoProbe ==
    [declaration |-> [props |-> <<>>, readonly |-> FALSE],
     before |-> [props |-> <<>>, readonly |-> FALSE],
     args |-> <<>>, repeated |-> FALSE, panic |-> ""]

\* the program before its first call of global_styles(); the sheet and the
\* registry are those GlobalStyles::new and MonotonicIds::default will make
InitStyles ==
    /\ styleElements = 0
    /\ rule_ids = <<>>
    /\ lock = FALSE
    /\ sheet = <<>>
    /\ rules = <<>>
    /\ tasks = <<>>
    /\ handles = {}
    /\ pc = "idle"
    /\ cur = NoCall
    /\ panicked = ""
    /\ nAlloc = 0
    /\ born = <<>>
    /\ last = NoHistory
    /\ staleWrite = FALSE
    /\ stream = <<>>

\* no Connection has been made
NoConnection ==
    [session_id |-> 0, auth_token_getter |-> <<>>, calls |-> <<>>, cor_ids |-> 0]

Init ==
    /\ InitStyles
    /\ engine = DefaultEngine
    /\ probe = NoProbe
    /\ connection = NoConnection

Running == panicked = ""

\* ------ the order of the statements ------

\* variant: the guard is dropped right after add_new_id, before the insertion
StyleGroupInnerOrderLockDroppedEarly ==
    <<"drop_ids_lock", "insert_rule", "item", "static_css_props", "dynamic_css_props">>

\* style_group_inner after add_new_id: insert_rule_with_index, item(..).style(),
\* drop(ids_lock), the static properties, the dynamic properties
StyleGroupInnerOrder ==
    <<"insert_rule", "item", "drop_ids_lock", "static_css_props", "dynamic_css_props">>

\* variant: the task handles are dropped before remove_rule runs
DropOrderCancelFirst == <<"drop_task_handles", "delete_rule", "end_remove_rule">>

\* the drop of a StyleGroupHandle after remove_id: Drop::drop runs remove_rule
\* (delete_rule, then the guard goes out of scope), then the fields are dropped
DropOrder == <<"delete_rule", "end_remove_rule", "drop_task_handles">>

OrderOf(op) == IF op = "style_group_inner" THEN StyleGroupInnerOrder ELSE DropOrder

\* the statement after statement `at` of the running call, "idle" at its end
After(op, at) ==
    LET order == OrderOf(op)
        k == CHOOSE i \in 1..Len(order) : order[i] = at
    IN  IF k = Len(order) THEN "idle" ELSE order[k + 1]

\* moves to the next statement with the locals c; a call that ends loses them
Advance(c) ==
    /\ pc' = After(cur.op, pc)
    /\ cur' = IF After(cur.op, pc) = "idle" THEN NoCall ELSE c

\* ------ MonotonicIds ------

\* the next id: one more than the newest live id
NextId(live) == IF live = <<>> THEN 0 ELSE live[Len(live)] + 1

\* add_new_id: takes the lock, pushes the new id, returns it with the guard
add_new_id(group, droppable) ==
    /\ Running /\ pc = "idle" /\ nAlloc < MaxAllocs
    /\ IF lock
       THEN /\ panicked' = "failed to lock MonotonicIds"
            /\ UNCHANGED <<rule_ids, lock, pc, cur, nAlloc, born, last>>
       ELSE /\ lock' = TRUE
            /\ rule_ids' = Append(rule_ids, NextId(rule_ids))
            /\ nAlloc' = nAlloc + 1
            /\ born' = [id \in (DOMAIN born) \cup {NextId(rule_ids)} |->
                          IF id = NextId(rule_ids) THEN nAlloc + 1 ELSE born[id]]
            /\ cur' = [NoCall EXCEPT !.op = "style_group_inner", !.group = group,
                                     !.droppable = droppable, !.id = NextId(rule_ids),
                                     !.owner = nAlloc + 1]
            /\ last' = [op |-> "style_group_inner", id |-> NextId(rule_ids), owner |-> nAlloc + 1,
                        sheet0 |-> sheet, ids0 |-> rule_ids,
                        count0 |-> -1]
            /\ pc' = StyleGroupInnerOrder[1]
            /\ UNCHANGED panicked
    /\ UNCHANGED <<sheet, rules, tasks, handles, staleWrite, engine, stream, probe,
                   connection>>

\* remove_id: takes the lock, finds the id's position, removes it, returns
\* the position with the guard
remove_id(handle) ==
    /\ Running /\ pc = "idle" /\ handle \in handles
    /\ IF lock
       THEN /\ panicked' = "failed to lock MonotonicIds"
            /\ UNCHANGED <<rule_ids, lock, pc, cur, born, last>>
       ELSE IF Rank(rule_ids, handle.rule_id) < 0
       THEN /\ panicked' = "id not found"
            /\ UNCHANGED <<rule_ids, lock, pc, cur, born, last>>
       ELSE /\ lock' = TRUE
            /\ rule_ids' = RemoveAt(rule_ids, Rank(rule_ids, handle.rule_id))
            /\ born' = [id \in (DOMAIN born) \ {handle.rule_id} |-> born[id]]
            /\ cur' = [NoCall EXCEPT !.op = "drop", !.id = handle.rule_id,
                                     !.index = Rank(rule_ids, handle.rule_id),
                                     !.owner = handle.owner]
            /\ last' = [op |-> "drop", id |-> handle.rule_id, owner |-> handle.owner,
                        sheet0 |-> sheet, ids0 |-> rule_ids,
                        count0 |-> IF last.op = "style_group_inner"
                                      /\ last.owner = handle.owner
                                   THEN Len(last.sheet0) ELSE -1]
            /\ pc' = DropOrder[1]
            /\ UNCHANGED panicked
    /\ UNCHANGED <<sheet, tasks, handles, nAlloc, staleWrite, engine, stream, probe,
                   connection>>

\* ------ GlobalStyles ------

\* variant: every rule is inserted at the head of the sheet
InsertIndexHead(rule_id_and_index) == 0

\* insert_rule_with_index(&empty_rule, rule_id_and_index): the position the
\* rule is inserted at, and later fetched from, is the id add_new_id returned
InsertIndex(rule_id_and_index) == rule_id_and_index

\* variant: the id is used as the position to delete
DeleteIndexById(rule_index, id) == id

\* variant: the position to delete is counted from 1
DeleteIndexOffByOne(rule_index, id) == rule_index + 1

\* delete_rule(u32::try_from(rule_index)): the position remove_id returned
DeleteIndex(rule_index, id) == rule_index

\* variant: every task is started with Task::start
NeverKeepsTaskHandle(droppable) == FALSE

\* Task::start_droppable for a droppable group, Task::start otherwise:
\* whether the handle of the spawned task is kept
KeepsTaskHandle(droppable) == droppable

\* variant: every call of global_styles() builds a new GlobalStyles
get_or_init_always(created) == created + 1

\* GLOBAL_STYLES.get_or_init(|| Box::new(GlobalStyles::new())): the closure
\* runs when the OnceBox is empty, and the number of the <style> elements
\* created so far becomes
get_or_init(created) == IF created = 0 THEN 1 ELSE created

\* global_styles()
global_styles == styleElements' = get_or_init(styleElements)

\* the public entries, reached through global_styles()
style_group(group) == global_styles /\ add_new_id(group, FALSE)

style_group_droppable(group) == global_styles /\ add_new_id(group, TRUE)

\* style_group_inner: sheet.insert_rule_with_index
insert_rule_with_index ==
    /\ Running /\ pc = "insert_rule"
    /\ LET index == InsertIndex(cur.id)
       IN  IF ~ValidSelector(cur.group.selector) \/ index > Len(sheet)
           THEN /\ panicked' = "invalid CSS selector"
                /\ UNCHANGED <<sheet, rules, pc, cur>>
           ELSE /\ sheet' = InsertAt(sheet, index, cur.owner)
                /\ rules' = Append(rules, [id |-> cur.id,
                                           selector |-> cur.group.selector,
                                           droppable |-> cur.droppable,
                                           removes |-> 0,
                                           declaration |->
                                               EmptyDeclaration(cur.group.selector)])
                /\ Advance([cur EXCEPT !.index = index])
                /\ UNCHANGED panicked
    /\ UNCHANGED <<rule_ids, lock, tasks, handles, nAlloc, born, last,
                   staleWrite, engine, stream, probe, styleElements,
                   connection>>

\* style_group_inner: css_rules().item(rule_id_and_index).style()
GetDeclaration ==
    /\ Running /\ pc = "item"
    /\ IF cur.index >= Len(sheet)
       THEN /\ panicked' = "failed to get selected global CSS rule"
            /\ UNCHANGED <<pc, cur>>
       ELSE /\ Advance([cur EXCEPT !.declaration = sheet[cur.index + 1]])
            /\ UNCHANGED panicked
    /\ UNCHANGED <<rule_ids, lock, sheet, rules, tasks, handles, nAlloc, born, last, staleWrite, engine, stream, probe, styleElements,
                   connection>>

\* style_group_inner: drop(ids_lock)
drop_ids_lock ==
    /\ Running /\ pc = "drop_ids_lock"
    /\ lock' = FALSE
    /\ Advance(cur)
    /\ UNCHANGED <<rule_ids, sheet, rules, tasks, handles, panicked, nAlloc,
                   born, last, staleWrite, engine, stream, probe, styleElements,
                   connection>>

\* variant: the loop passes `false` for important
RECURSIVE SetStaticPropsNeverImportant(_, _, _)
SetStaticPropsNeverImportant(declaration, props, k) ==
    IF k > Len(props) THEN [declaration |-> declaration, panic |-> ""]
    ELSE LET set == set_css_property(declaration, props[k].name, props[k].value, FALSE)
         IN  IF set.panic # "" THEN set
             ELSE SetStaticPropsNeverImportant(set.declaration, props, k + 1)

\* the loop over group.static_css_props
RECURSIVE SetStaticProps(_, _, _)
SetStaticProps(declaration, props, k) ==
    IF k > Len(props) THEN [declaration |-> declaration, panic |-> ""]
    ELSE LET set == set_css_property(declaration, props[k].name, props[k].value,
                                     props[k].important)
         IN  IF set.panic # "" THEN set
             ELSE SetStaticProps(set.declaration, props, k + 1)

ApplyStaticProps ==
    /\ Running /\ pc = "static_css_props"
    /\ LET set == SetStaticProps(rules[cur.declaration].declaration,
                                 cur.group.static_css_props, 1)
       IN  /\ rules' = [rules EXCEPT ![cur.declaration].declaration = set.declaration]
           /\ panicked' = set.panic
           /\ IF set.panic = "" THEN Advance(cur) ELSE UNCHANGED <<pc, cur>>
    /\ UNCHANGED <<rule_ids, lock, sheet, tasks, handles, nAlloc, born,
                   last, staleWrite, engine, stream, probe, styleElements,
                   connection>>

\* the loop over group.dynamic_css_props, and the return of the call:
\* style_group forgets the (empty) vector of handles, style_group_droppable
\* returns it in a StyleGroupHandle
SpawnTasks ==
    /\ Running /\ pc = "dynamic_css_props"
    /\ LET spawned == {<<cur.owner, name>> : name \in cur.group.dynamic_css_props}
       IN  tasks' = [key \in (DOMAIN tasks) \cup spawned |->
                        IF key \in spawned
                        THEN [state |-> "running",
                              declaration |-> cur.declaration,
                              handle |-> KeepsTaskHandle(cur.droppable)]
                        ELSE tasks[key]]
    /\ handles' = IF cur.droppable
                  THEN handles \cup {[rule_id |-> cur.id, owner |-> cur.owner]}
                  ELSE handles
    /\ Advance(cur)
    /\ UNCHANGED <<rule_ids, lock, sheet, rules, panicked, nAlloc, born,
                   last, staleWrite, engine, stream, probe, styleElements,
                   connection>>

\* ------ StyleGroupHandle ------

\* Drop::drop calls remove_rule(self.rule_id), which starts with remove_id
\* removes: history, the calls of remove_rule made for the rule
drop(handle) ==
    /\ global_styles
    /\ remove_id(handle)
    /\ rules' = [rules EXCEPT ![handle.owner].removes = @ + 1]

\* variant: remove_rule releases the id and leaves the sheet alone
delete_rule_skipped ==
    /\ Running /\ pc = "delete_rule"
    /\ Advance(cur)
    /\ UNCHANGED <<rule_ids, lock, sheet, rules, tasks, handles, panicked, nAlloc,
                   born, last, staleWrite, engine, stream, probe, styleElements,
                   connection>>

\* remove_rule: sheet.delete_rule
delete_rule ==
    /\ Running /\ pc = "delete_rule"
    /\ LET index == DeleteIndex(cur.index, cur.id)
       IN  IF index < 0 \/ index >= Len(sheet)
           THEN /\ panicked' = "style: delete_rule failed"
                /\ UNCHANGED <<sheet, pc, cur>>
           ELSE /\ sheet' = RemoveAt(sheet, index)
                /\ Advance(cur)
                /\ UNCHANGED panicked
    /\ UNCHANGED <<rule_ids, lock, rules, tasks, handles, nAlloc, born,
                   last, staleWrite, engine, stream, probe, styleElements,
                   connection>>

\* remove_rule returns: _ids_lock goes out of scope
EndRemoveRule ==
    /\ Running /\ pc = "end_remove_rule"
    /\ lock' = FALSE
    /\ Advance(cur)
    /\ UNCHANGED <<rule_ids, sheet, rules, tasks, handles, panicked, nAlloc,
                   born, last, staleWrite, engine, stream, probe, styleElements,
                   connection>>

\* variant: the handle outlives its drop
DropTaskHandlesKeepsHandle ==
    /\ Running /\ pc = "drop_task_handles"
    /\ tasks' = [key \in DOMAIN tasks |->
                    IF key[1] = cur.owner /\ tasks[key].handle
                    THEN [tasks[key] EXCEPT !.state = "cancelled"]
                    ELSE tasks[key]]
    /\ Advance(cur)
    /\ UNCHANGED <<rule_ids, lock, sheet, rules, handles, panicked, nAlloc, born,
                   last, staleWrite, engine, stream, probe, styleElements,
                   connection>>

\* the fields of the handle are dropped: each TaskHandle cancels its task;
\* the handle was moved into drop and is gone
DropTaskHandles ==
    /\ Running /\ pc = "drop_task_handles"
    /\ tasks' = [key \in DOMAIN tasks |->
                    IF key[1] = cur.owner /\ tasks[key].handle
                    THEN [tasks[key] EXCEPT !.state = "cancelled"]
                    ELSE tasks[key]]
    /\ handles' = {h \in handles : h.owner # cur.owner}
    /\ Advance(cur)
    /\ UNCHANGED <<rule_ids, lock, sheet, rules, panicked, nAlloc, born,
                   last, staleWrite, engine, stream, probe, styleElements,
                   connection>>

\* ------ the tasks ------

\* variant: an absent value empties the declaration
for_each_sync_clears_declaration(declaration, name, value) ==
    IF value # None
    THEN set_css_property(declaration, name, value[1], FALSE)
    ELSE [declaration |-> [declaration EXCEPT !.props = <<>>], panic |-> ""]

\* the closure given to for_each_sync, called with one item of the signal:
\* a present value is set, not important; an absent one removes the name
for_each_sync(declaration, name, value) ==
    IF value # None
    THEN set_css_property(declaration, name, value[1], FALSE)
    ELSE [declaration |-> remove_property(declaration, name), panic |-> ""]

\* variant: the closure fetches the declaration anew, at the index its rule
\* was inserted at
PollTaskByIndex(key, item) ==
    /\ Running /\ pc = "idle"
    /\ key \in DOMAIN tasks
    /\ tasks[key].state = "running"
    /\ item \in SignalItems(key[2])
    /\ LET index == rules[key[1]].id
           object == IF index < Len(sheet) THEN sheet[index + 1] ELSE key[1]
           declaration == rules[object].declaration
           set == for_each_sync(declaration, key[2], item)
       IN  /\ rules' = [rules EXCEPT ![object].declaration = set.declaration]
           /\ panicked' = set.panic
           /\ staleWrite' = (staleWrite \/ object \notin Range(sheet))
    /\ UNCHANGED <<rule_ids, lock, sheet, tasks, handles, pc, cur, nAlloc, born, last,
                   engine, probe, styleElements,
                   connection>>

\* one item of a signal reaches the closure of for_each_sync, which holds
\* the declaration object fetched when its rule was inserted
PollTask(key, item) ==
    /\ Running /\ pc = "idle"
    /\ key \in DOMAIN tasks
    /\ tasks[key].state = "running"
    /\ item \in SignalItems(key[2])
    /\ LET object == tasks[key].declaration
           declaration == rules[object].declaration
           set == for_each_sync(declaration, key[2], item)
       IN  /\ rules' = [rules EXCEPT ![object].declaration = set.declaration]
           /\ panicked' = set.panic
           /\ staleWrite' = (staleWrite \/ object \notin Range(sheet))
    /\ UNCHANGED <<rule_ids, lock, sheet, tasks, handles, pc, cur, nAlloc, born, last,
                   engine, probe, styleElements,
                   connection>>

\* ------ the specification ------

Next ==
    \/ \E group \in Groups : style_group(group)
    \/ \E group \in Groups : style_group_droppable(group)
    \/ insert_rule_with_index
    \/ GetDeclaration
    \/ drop_ids_lock
    \/ ApplyStaticProps
    \/ SpawnTasks
    \/ \E handle \in handles : drop(handle)
    \/ delete_rule
    \/ EndRemoveRule
    \/ DropTaskHandles
    \/ \E key \in DOMAIN tasks : \E item \in SignalItems(key[2]) :
          PollTask(key, item) /\ UNCHANGED stream

Spec == Init /\ [][Next]_vars

\* ------ the specification that records the streams ------

StreamGroups == {SelectGroup}

\* history: the item a task consumed, and its declaration before and after
RecordItem(key, item) ==
    /\ Len(stream) < MaxItems
    /\ stream' = Append(stream, [key |-> key, item |-> item,
                                 before |-> rules[tasks[key].declaration].declaration,
                                 after |-> rules'[tasks[key].declaration].declaration])

NextStream ==
    \/ \E group \in StreamGroups : nAlloc < MaxStreamRules /\ style_group(group)
    \/ \E group \in StreamGroups : nAlloc < MaxStreamRules /\ style_group_droppable(group)
    \/ insert_rule_with_index
    \/ GetDeclaration
    \/ drop_ids_lock
    \/ ApplyStaticProps
    \/ SpawnTasks
    \/ \E handle \in handles : drop(handle)
    \/ delete_rule
    \/ EndRemoveRule
    \/ DropTaskHandles
    \/ \E key \in DOMAIN tasks : \E item \in SignalItems(key[2]) :
          PollTask(key, item) /\ RecordItem(key, item)

SpecStream == Init /\ [][NextStream]_vars

\* ------ the specification of set_css_property alone ------

\* the property and the values the calls are made with
ProbeName == <<"user-select">>

ProbeValues == {<<"none">>, <<"text">>}

\* every combination of a prefixed name and a prefixed value
PrefixedPairs(name, value) ==
    {<<Concat(PrefixPairs[k][1], name), Concat(PrefixPairs[k][2], value)>> :
        k \in 1..Len(PrefixPairs)}

\* the engines: any set of the combinations of `none`, and `text` taken
\* under the last prefix of the name or not at all
ProbeEngines ==
    {nones \cup texts :
        nones \in SUBSET PrefixedPairs(ProbeName, <<"none">>),
        texts \in SUBSET {<<Concat(Prefixes[Len(Prefixes)], ProbeName), <<"text">>>>}}

\* an empty declaration of a rule in any of the engines; the declaration of
\* a CSSFontFaceRule answers set_property with Err
InitProperty ==
    /\ InitStyles
    /\ engine \in ProbeEngines
    /\ \E selector \in {".select", "@font-face"} :
          probe = [NoProbe EXCEPT !.declaration = EmptyDeclaration(selector),
                                  !.before = EmptyDeclaration(selector)]
    /\ connection = NoConnection

\* set_css_property(&declaration, name, value, important)
CallSetCssProperty(value, important) ==
    /\ Running
    /\ LET set == set_css_property(probe.declaration, ProbeName, value, important)
       IN  /\ probe' = [declaration |-> set.declaration,
                        before |-> probe.declaration,
                        args |-> <<ProbeName, value, important>>,
                        repeated |-> (probe.args = <<ProbeName, value, important>>),
                        panic |-> set.panic]
           /\ panicked' = set.panic
    /\ UNCHANGED <<engine, styleElements, rule_ids, lock, sheet, rules, tasks, handles,
                   pc, cur, nAlloc, born, last, staleWrite, stream,
                   connection>>

\* declaration.remove_property(&name), as a binding calls it between two sets
CallRemoveProperty ==
    /\ Running
    /\ probe' = [declaration |-> remove_property(probe.declaration, ProbeName),
                 before |-> probe.declaration,
                 args |-> <<>>, repeated |-> FALSE, panic |-> ""]
    /\ UNCHANGED <<engine, styleElements, rule_ids, lock, sheet, rules, tasks, handles,
                   pc, cur, panicked, nAlloc, born, last, staleWrite, stream,
                   connection>>

NextProperty ==
    \/ \E value \in ProbeValues : \E important \in BOOLEAN :
          CallSetCssProperty(value, important)
    \/ CallRemoveProperty

SpecProperty == InitProperty /\ [][NextProperty]_vars

\* ------ Connection (crates/zoon/src/connection.rs) ------

\* Display of an id, as written into a header: its digits, here in unary
to_string(id) == [i \in 1..id |-> "1"]

SessionIds == {1, 2}

\* header values the browser takes, and one Headers::set throws on
AuthTokens == {<<"token">>, <<"line", "\n">>}

ValidHeaderValue(value) == "\n" \notin Range(value)

\* auth_token_getter: None, or Some(getter); a getter is given here by the
\* Option<AuthToken> it returns
AuthTokenGetters == {None, Some(None)} \cup {Some(Some(token)) : token \in AuthTokens}

\* what the fetch of a request may come to: the promise rejects, or resolves
\* with a response of one of these statuses
Statuses == {200, 204, 299, 300, 404, 500}

\* variant: only 200 is a success
ResponseOkOnly200(status) == status = 200

\* Response::ok
ResponseOk(status) == 200 <= status /\ status <= 299

\* return Ok(cor_id): the local made by CorId::new() at the top of the call
ReturnedCorId(call) == call.cor_id

\* Connection::new, then auth_token_getter or not
InitConnection ==
    /\ InitStyles
    /\ engine = DefaultEngine
    /\ probe = NoProbe
    /\ \E session_id \in SessionIds : \E getter \in AuthTokenGetters :
          connection = [NoConnection EXCEPT !.session_id = session_id,
                                            !.auth_token_getter = getter]

\* the headers of the request: X-Correlation-ID, X-Session-ID and, when the
\* getter is there and returns a token, X-Auth-Token
RequestHeaders(cor_id) ==
    LET auth_token == IF connection.auth_token_getter = None THEN None
                      ELSE connection.auth_token_getter[1]
        always == [name \in {"X-Correlation-ID", "X-Session-ID"} |->
                     IF name = "X-Correlation-ID" THEN to_string(cor_id)
                     ELSE to_string(connection.session_id)]
    IN  IF auth_token = None THEN always
        ELSE [name \in (DOMAIN always) \cup {"X-Auth-Token"} |->
                 IF name = "X-Auth-Token" THEN auth_token[1] ELSE always[name]]

\* send_up_msg up to its await: the request is built, CorId::new() is a
\* fresh id, the headers are set and the fetch is started
send_up_msg ==
    /\ Running
    /\ connection.cor_ids < MaxUpMsgs
    /\ LET cor_id == connection.cor_ids + 1
           headers == RequestHeaders(cor_id)
       IN  IF \E name \in DOMAIN headers : ~ValidHeaderValue(headers[name])
           THEN /\ panicked' = "unwrap_throw"
                /\ connection' = [connection EXCEPT !.cor_ids = cor_id]
           ELSE /\ connection' =
                     [connection EXCEPT
                        !.cor_ids = cor_id,
                        !.calls = Append(@, [cor_id |-> cor_id, headers |-> headers,
                                             fetch |-> "pending", status |-> 0,
                                             result |-> <<"pending">>])]
                /\ UNCHANGED panicked
    /\ UNCHANGED <<engine, styleElements, rule_ids, lock, sheet, rules, tasks, handles,
                   pc, cur, nAlloc, born, last, staleWrite, stream, probe>>

\* the fetch promise rejects: map_err(RequestFailed)?
FetchRejects(i) ==
    /\ Running
    /\ i \in 1..Len(connection.calls)
    /\ connection.calls[i].fetch = "pending"
    /\ connection' = [connection EXCEPT !.calls[i].fetch = "rejected",
                                         !.calls[i].result = <<"Err", "RequestFailed">>]
    /\ UNCHANGED <<engine, styleElements, rule_ids, lock, sheet, rules, tasks, handles,
                   pc, cur, panicked, nAlloc, born, last, staleWrite, stream, probe>>

\* the fetch promise resolves with a response: Ok(cor_id) if response.ok(),
\* else Err(ResponseIsNot2xx)
FetchResolves(i, status) ==
    /\ Running
    /\ i \in 1..Len(connection.calls)
    /\ connection.calls[i].fetch = "pending"
    /\ connection' =
          [connection EXCEPT
             !.calls[i].fetch = "resolved",
             !.calls[i].status = status,
             !.calls[i].result =
                 IF ResponseOk(status)
                 THEN <<"Ok", ReturnedCorId(connection.calls[i])>>
                 ELSE <<"Err", "ResponseIsNot2xx">>]
    /\ UNCHANGED <<engine, styleElements, rule_ids, lock, sheet, rules, tasks, handles,
                   pc, cur, panicked, nAlloc, born, last, staleWrite, stream, probe>>

NextConnection ==
    \/ send_up_msg
    \/ \E i \in 1..Len(connection.calls) : FetchRejects(i)
    \/ \E i \in 1..Len(connection.calls) : \E status \in Statuses :
          FetchResolves(i, status)

SpecConnection == InitConnection /\ [][NextConnection]_vars


\* ------ the properties ------

\* the tasks spawned by the call that inserted rule object `owner`
TasksOf(owner) == {key \in DOMAIN tasks : key[1] = owner}

\* the rank of a live id among the live ids, by the time of allocation
AllocRank(id) == Cardinality({j \in DOMAIN born : born[j] < born[id]})

\* the position the program uses for a live id: the one style_group_inner
\* inserts at while the call that allocated the id runs, the one remove_id
\* finds otherwise
ReportedIndex(id) ==
    IF cur.op = "style_group_inner" /\ cur.id = id THEN InsertIndex(id) ELSE Rank(rule_ids, id)

\* a drop has returned and no other structural call has started since
DropReturned == pc = "idle" /\ last.op = "drop"

\* C1: the physical index reported for every live id is its 0-based rank
\* among the live ids in the order of allocation.
C1_ReportedIndexIsAllocRank ==
    \A i \in 1..Len(rule_ids) : ReportedIndex(rule_ids[i]) = AllocRank(rule_ids[i])

\* C2: once a structural call has returned, the sheet holds exactly one rule
\* per live id, and the rule at each live id's registry index is the rule
\* that was inserted for that id.
C2_MappingMatchesRuleTable ==
    pc = "idle" =>
        /\ Len(sheet) = Len(rule_ids)
        /\ \A i \in 1..Len(rule_ids) :
              /\ sheet[i] = born[rule_ids[i]]
              /\ rules[sheet[i]].id = rule_ids[i]

C2_Witness ==
    /\ DropReturned
    /\ Len(rule_ids) >= 2
    /\ \E i \in 1..Len(rule_ids) : rule_ids[i] # i - 1

\* C3: the drop of a handle deletes from the sheet exactly the rule inserted
\* by the call that returned the handle, and no other rule.
C3_DropDeletesOwnRule ==
    DropReturned =>
        LET Kept(object) == object # last.owner
        IN  /\ last.owner \in Range(last.sheet0)
            /\ rules[last.owner].id = last.id
            /\ sheet = SelectSeq(last.sheet0, Kept)

C3_Witness ==
    /\ DropReturned
    /\ Rank(last.ids0, last.id) # last.id
    /\ Len(sheet) >= 1

\* C4: a new rule is inserted at the current count of live ids; with the
\* live ids 0 and 2 left of three groups, the next group is inserted at
\* position 2 and the insertion succeeds.
C4_AppendAtTail ==
    /\ (cur.op = "style_group_inner" /\ pc = "insert_rule") =>
            InsertIndex(cur.id) = Len(last.ids0)
    /\ (cur.op = "style_group_inner" /\ last.ids0 = <<0, 2>>
            /\ ValidSelector(cur.group.selector)) =>
            /\ InsertIndex(cur.id) = 2
            /\ panicked = ""

\* C5: the release of id X lowers by exactly one the index of every live id
\* whose rule sat after X, keeps the index of every id before X, and keeps
\* the order of the remaining ids; in the registry and in the sheet.
C5_ReleaseShiftsLaterIds ==
    DropReturned =>
        LET x == Rank(last.ids0, last.id)
            Shifted(r) == IF r > x THEN r - 1 ELSE r
        IN  /\ Range(rule_ids) = Range(last.ids0) \ {last.id}
            /\ \A y \in Range(rule_ids) :
                  /\ Rank(rule_ids, y) = Shifted(Rank(last.ids0, y))
                  /\ Rank(sheet, born[y]) = Shifted(Rank(last.sheet0, born[y]))
            /\ \A y, z \in Range(rule_ids) :
                  (Rank(rule_ids, y) < Rank(rule_ids, z))
                      <=> (Rank(last.ids0, y) < Rank(last.ids0, z))

C5_Witness ==
    /\ DropReturned
    /\ Rank(last.ids0, last.id) > 0
    /\ Rank(last.ids0, last.id) < Len(last.ids0) - 1
    /\ Len(sheet) = Len(last.sheet0) - 1

\* C6: style_group_droppable directly followed by the drop of the handle it
\* returned leaves the count of rules of the sheet as it was before the call.
C6_ApplyThenDropKeepsCount ==
    (DropReturned /\ last.count0 # -1) => Len(sheet) = last.count0

C6_Witness ==
    /\ DropReturned
    /\ last.count0 >= 1
    /\ Len(sheet) = last.count0

\* C7: no task writes into the declaration of a rule that is no longer in
\* the sheet: whenever a task can be polled, every task of a deleted rule
\* is cancelled.
C7_NoWriteAfterDelete ==
    /\ ~staleWrite
    /\ pc = "idle" =>
          \A key \in DOMAIN tasks :
              tasks[key].declaration \notin Range(sheet) =>
                  tasks[key].state = "cancelled"

C7_Witness ==
    \E key \in DOMAIN tasks :
        /\ pc = "idle"
        /\ tasks[key].state = "cancelled"
        /\ tasks[key].declaration \notin Range(sheet)
        /\ get_property_value(rules[tasks[key].declaration].declaration, key[2])
              # EmptyStr
        /\ \E other \in DOMAIN tasks : tasks[other].state = "running"

\* C8, as stated: when the drop of a handle calls delete_rule, every task
\* the handle owns is cancelled already.
C8_CancelPrecedesDelete ==
    pc = "delete_rule" =>
        \A key \in TasksOf(cur.owner) : tasks[key].state = "cancelled"

\* C8, amended: the drop of a handle deletes the rule first (Drop::drop
\* runs remove_rule) and cancels the tasks the handle owns after it (the
\* fields are dropped last); when the drop returns the rule is deleted and
\* every owned task is cancelled.
C8_DeleteThenCancel ==
    /\ pc = "delete_rule" =>
          \A key \in TasksOf(cur.owner) : tasks[key].state = "running"
    /\ pc = "drop_task_handles" => cur.owner \notin Range(sheet)
    /\ DropReturned =>
          /\ last.owner \notin Range(sheet)
          /\ \A key \in TasksOf(last.owner) : tasks[key].state = "cancelled"

C8_Witness ==
    /\ pc = "drop_task_handles"
    /\ cur.owner \notin Range(sheet)
    /\ \E key \in TasksOf(cur.owner) : tasks[key].state = "running"

\* C9: the critical sections of the structural calls do not overlap, and
\* each lasts from add_new_id / remove_id until insert_rule / delete_rule
\* is done: the lock is held whenever the registry and the sheet differ,
\* and it is free whenever a call starts.
C9_StructuralCallsSerialized ==
    /\ Len(rule_ids) # Len(sheet) => lock
    /\ pc \in {"insert_rule", "item", "delete_rule"} => lock
    /\ pc = "idle" => ~lock
    /\ panicked # "failed to lock MonotonicIds"

C9_Witness ==
    /\ pc = "delete_rule"
    /\ lock
    /\ Len(rule_ids) # Len(sheet)
    /\ Len(sheet) >= 2

\* the latest step was the poll of a task of a permanent rule, and it left
\* the item in the slot of that rule
PermanentPollApplies ==
    \A key \in DOMAIN tasks : \A item \in SignalItems(key[2]) :
        (PollTask(key, item) /\ ~rules[key[1]].droppable) =>
            get_property_value(rules'[key[1]].declaration, key[2]) =
                (IF item = None THEN EmptyStr ELSE item[1])

\* a permanent rule is in the sheet and its tasks run and hold its own
\* declaration
PermanentKept ==
    \A object \in 1..Len(rules) :
        ~rules[object].droppable =>
            /\ object \in Range(sheet)
            /\ \A key \in TasksOf(object) :
                  /\ tasks[key].state = "running"
                  /\ tasks[key].declaration = object

\* C10: a rule applied with style_group is never revoked: after any later
\* applies and drops it is still in the sheet, its tasks still run, and
\* each item they consume is applied to its declaration.
C10_PermanentNeverRevoked == [](PermanentKept) /\ [][PermanentPollApplies]_vars

C10_Witness ==
    \E key \in DOMAIN tasks :
        /\ DropReturned
        /\ ~rules[key[1]].droppable
        /\ tasks[key].state = "running"
        /\ get_property_value(rules[key[1]].declaration, key[2]) = <<"block">>
        /\ Rank(sheet, key[1]) # Rank(last.sheet0, key[1])

\* ------ C11 ------

\* every descriptor the specifications apply
AllGroups == Groups \cup {SelectGroup}

\* the descriptor rule object `object` was inserted for
GroupOf(object) == CHOOSE group \in AllGroups : group.selector = rules[object].selector

\* the latest structural call is style_group / style_group_droppable, and it
\* has returned
StyleGroupReturned == pc = "idle" /\ last.op = "style_group_inner"

\* the declaration holds property p, verbatim or in a vendor-prefixed form,
\* with p's value and priority
HoldsProp(declaration, p) ==
    \E k \in 1..Len(PrefixPairs) :
        LET prefixed_name == Concat(PrefixPairs[k][1], p.name)
        IN  /\ prefixed_name \in DOMAIN declaration.props
            /\ declaration.props[prefixed_name].value = Concat(PrefixPairs[k][2], p.value)
            /\ declaration.props[prefixed_name].priority =
                   (IF p.important THEN "important" ELSE "")

\* C11: when style_group or style_group_droppable has returned, the rule it
\* inserted holds every static property of the descriptor, with the
\* descriptor's value and priority
C11_StaticPropsApplied ==
    StyleGroupReturned =>
        \A k \in 1..Len(GroupOf(last.owner).static_css_props) :
            HoldsProp(rules[last.owner].declaration,
                      GroupOf(last.owner).static_css_props[k])

\* the rule of `.button` holds `background: purple` when the call has returned
C11_Witness ==
    /\ StyleGroupReturned
    /\ rules[last.owner].selector = ".button"
    /\ get_property_value(rules[last.owner].declaration, <<"background">>) = <<"purple">>
    /\ rules[last.owner].declaration.props[<<"padding">>].priority = "important"

\* ------ C12 ------

\* the forms a property name takes in the prefix search
PrefixedNames(name) == {Concat(Prefixes[k], name) : k \in 1..Len(Prefixes)}

\* what the declaration shows of the property after an item: a present value
\* is set, verbatim or in a prefixed form; an absent one leaves no form set
ItemShown(entry) ==
    IF entry.item = None
    THEN \A n \in PrefixedNames(entry.key[2]) : get_property_value(entry.after, n) = EmptyStr
    ELSE HoldsProp(entry.after, [name |-> entry.key[2], value |-> entry.item[1],
                                 important |-> FALSE])

\* C12: on every item a binding receives, in the order of the stream, a
\* present value sets the property and an absent value removes it
C12_ItemsRewriteSlot == \A i \in 1..Len(stream) : ItemShown(stream[i])

\* the items of the tasks of property `name`, as recorded
ItemsOf(name) ==
    {i \in 1..Len(stream) : stream[i].key[2] = name}

\* the part of C12 that holds: a binding whose property the engine takes
\* verbatim shows every item in stream order
C12_VerbatimItemsRewriteSlot ==
    \A i \in ItemsOf(<<"display">>) :
        get_property_value(stream[i].after, <<"display">>) =
            (IF stream[i].item = None THEN EmptyStr ELSE stream[i].item[1])

\* display fed block, absent, block by one task
C12_DisplayScenario ==
    /\ Len(stream) = 3
    /\ \A i \in 1..3 : stream[i].key = stream[1].key /\ stream[i].key[2] = <<"display">>
    /\ stream[1].item = Some(<<"block">>) /\ stream[2].item = None
    /\ stream[3].item = Some(<<"block">>)

\* ------ C13 ------

\* a call of set_css_property has been made and has ended
Called == probe.args # <<>>

CalledName == probe.args[1]

CalledValue == probe.args[2]

CalledPriority == IF probe.args[3] THEN "important" ELSE ""

\* the verbatim write of the call read back empty: the search was entered
VerbatimEmpty ==
    /\ Called /\ ~probe.before.readonly
    /\ get_property_value(
           set_property_with_priority(probe.before, CalledName, CalledValue,
                                      CalledPriority), CalledName) = EmptyStr

\* combination k of the prefix list works: the engine takes it
Working(k) ==
    BackendAccepts(Concat(PrefixPairs[k][1], CalledName),
                   Concat(PrefixPairs[k][2], CalledValue))

\* the declaration the call leaves is the one before it with combination k
\* written, and nothing else
LeftApplied(k) ==
    probe.declaration =
        set_property_with_priority(probe.before,
                                   Concat(PrefixPairs[k][1], CalledName),
                                   Concat(PrefixPairs[k][2], CalledValue),
                                   CalledPriority)

\* C13: when the verbatim write reads back empty and some combination works,
\* the call returns with the first working combination of the prefix list
\* applied, and no other combination written
C13_FirstWorkingApplied ==
    (VerbatimEmpty /\ \E k \in 1..Len(PrefixPairs) : Working(k)) =>
        /\ probe.panic = ""
        /\ \E k \in 1..Len(PrefixPairs) :
              /\ Working(k)
              /\ \A j \in 1..(k - 1) : ~Working(j)
              /\ LeftApplied(k)

\* no form of the called name was set before the call
FreshSlots ==
    Called /\ \A n \in PrefixedNames(CalledName) : get_property_value(probe.before, n) = EmptyStr

\* the part of C13 that holds: on a declaration that holds no form of the
\* name, the first working combination is applied and no other is written
C13_FirstWorkingAppliedOnFreshSlots == FreshSlots => C13_FirstWorkingApplied

\* the search went past working-free combinations to a later one
C13_SearchTaken ==
    /\ VerbatimEmpty /\ FreshSlots /\ probe.panic = ""
    /\ Working(Len(PrefixPairs)) /\ LeftApplied(Len(PrefixPairs))

\* ------ C14 ------

\* some form of the called name reads back non-empty
SomeFormSet ==
    \E n \in PrefixedNames(CalledName) : get_property_value(probe.declaration, n) # EmptyStr

\* C14 as claimed: a call that returns leaves a form of the property
\* reading back non-empty; a call that panics found every combination failing
C14_AppliedOrFatal ==
    Called =>
        IF probe.panic = ""
        THEN SomeFormSet
        ELSE probe.panic = "invalid CSS property" /\ ~SomeFormSet

\* C14: a call ends in exactly one of three ways: it returns with a form of
\* the property reading back non-empty; it panics with "invalid CSS
\* property" when no form reads back; or, when the first write answers Err,
\* it logs the error and returns with the declaration as it was
C14_AppliedFatalOrLogged ==
    Called =>
        IF probe.before.readonly
        THEN probe.panic = "" /\ probe.declaration = probe.before
        ELSE IF probe.panic = ""
        THEN SomeFormSet
        ELSE probe.panic = "invalid CSS property" /\ ~SomeFormSet

\* the first write answered Err and the call has returned
C14_Witness ==
    Called /\ probe.before.readonly /\ probe.panic = "" /\ ~SomeFormSet

\* a call has panicked
C14_Fatal == Called /\ probe.panic = "invalid CSS property"

\* ------ C15 ------

\* C15: a call of set_css_property that repeats the call before it, with the
\* same name, value and important flag, leaves the declaration as the first
\* call left it, whichever combinations the engine takes
C15_SecondCallChangesNothing ==
    probe.repeated => probe.panic = "" /\ probe.declaration = probe.before

\* the call was repeated in an engine that takes the value only with both
\* the name and the value prefixed
C15_Witness ==
    /\ probe.repeated
    /\ CalledValue = <<"none">>
    /\ engine \cap PrefixedPairs(ProbeName, <<"none">>) =
          {<<Concat(Prefixes[2], ProbeName), Concat(Prefixes[3], <<"none">>)>>}
    /\ get_property_value(probe.declaration, Concat(Prefixes[2], ProbeName)) =
          Concat(Prefixes[3], <<"none">>)

\* ------ C16 ------

C17_RemovedAtMostOnce ==
    /\ panicked # "id not found"
    /\ \A object \in 1..Len(rules) :
          /\ rules[object].removes <= 1
          /\ rules[object].removes = 1 => rules[object].droppable
    /\ \A handle \in handles :
          (pc = "idle" \/ cur.owner # handle.owner) =>
              /\ handle.rule_id \in DOMAIN born
              /\ born[handle.rule_id] = handle.owner
    /\ \A h1, h2 \in handles : h1.owner = h2.owner => h1 = h2

\* a handle was dropped, its id was handed out again, and the call returned
C17_Witness ==
    /\ pc = "idle"
    /\ \E object \in 1..Len(rules) :
          /\ rules[object].removes = 1
          /\ rules[object].id \in Range(rule_ids)

\* ------ C18 ------

\* the names the bindings of rule `object` were spawned for
BoundNames(object) == {key[2] : key \in TasksOf(object)}

\* C18 as claimed: the call spawns one binding per dynamic property and one
\* per dynamic class
C18_BindingPerPropertyAndClass ==
    StyleGroupReturned =>
        Cardinality(TasksOf(last.owner)) =
            Cardinality(GroupOf(last.owner).dynamic_css_props)
            + Cardinality(GroupOf(last.owner).dynamic_css_classes)

\* C18: the call applies every static property and spawns exactly one
\* binding per dynamic property, and none for the classes of the descriptor;
\* the handle of a scoped call owns every binding spawned, a permanent call
\* keeps no handle of any
C18_BindingPerProperty ==
    StyleGroupReturned =>
        LET group == GroupOf(last.owner)
        IN  /\ \A k \in 1..Len(group.static_css_props) :
                  HoldsProp(rules[last.owner].declaration, group.static_css_props[k])
            /\ BoundNames(last.owner) = group.dynamic_css_props
            /\ Cardinality(TasksOf(last.owner)) = Cardinality(group.dynamic_css_props)
            /\ \A key \in TasksOf(last.owner) :
                  /\ tasks[key].declaration = last.owner
                  /\ tasks[key].handle = rules[last.owner].droppable
            /\ rules[last.owner].droppable =>
                  [rule_id |-> last.id, owner |-> last.owner] \in handles

\* a scoped call for a descriptor with a dynamic property and a dynamic
\* class has returned
C18_Witness ==
    /\ StyleGroupReturned
    /\ rules[last.owner].droppable
    /\ GroupOf(last.owner).dynamic_css_classes # {}
    /\ TasksOf(last.owner) # {}

\* ------ C19 ------

\* the slots whose content an item changed
Changed(entry) ==
    {n \in (DOMAIN entry.before.props) \cup (DOMAIN entry.after.props) :
        \/ n \notin DOMAIN entry.before.props
        \/ n \notin DOMAIN entry.after.props
        \/ entry.before.props[n] # entry.after.props[n]}

\* the slots an item made the binding write: those it changed, and the one
\* remove_property was called on
Touched(entry) ==
    IF entry.item = None THEN Changed(entry) \cup {entry.key[2]} ELSE Changed(entry)

\* the slots a binding has written over its life so far
SlotsOf(key) ==
    UNION {Touched(stream[i]) : i \in {j \in 1..Len(stream) : stream[j].key = key}}

C20_OneStylesheetOwner == styleElements = (IF nAlloc = 0 THEN 0 ELSE 1)

\* global_styles() was called for several style groups and for a drop
C20_Witness ==
    /\ styleElements = 1
    /\ nAlloc >= 2
    /\ DropReturned

\* ------ C21 ------

\* an item of a binding of rule key[1] changes no rule but key[1]
PollWritesOwnRule ==
    \A key \in DOMAIN tasks : \A item \in SignalItems(key[2]) :
        PollTask(key, item) =>
            \A object \in 1..Len(rules) :
                rules'[object] # rules[object] => object = key[1]

\* C21: a value yielded by a binding of rule R changes the declaration of R
\* and of no other rule, wherever insertions and removals of other rules
\* have moved R in the sheet
C21_BindingWritesOwnRule == [][PollWritesOwnRule]_vars

\* a rule that removals have moved to a lower index holds the value of its
\* binding, and another rule with a binding of the same name does not
C21_Witness ==
    \E k1, k2 \in DOMAIN tasks :
        /\ pc = "idle" /\ k1[1] # k2[1]
        /\ k1[1] \in Range(sheet) /\ k2[1] \in Range(sheet)
        /\ Rank(sheet, k1[1]) < rules[k1[1]].id
        /\ get_property_value(rules[k1[1]].declaration, k1[2]) = <<"block">>
        /\ get_property_value(rules[k2[1]].declaration, k2[2]) = EmptyStr

\* ------ C22 ------

\* the slots the binding of item i has set by its earlier items
SetBefore(i) ==
    UNION {DOMAIN stream[j].after.props \cap Changed(stream[j]) :
              j \in {h \in 1..(i - 1) : stream[h].key = stream[i].key}}

\* C22: after an absent value no slot the binding has set before, under its
\* name or under a prefixed name, remains set
C22_AbsentClearsWrittenSlots ==
    \A i \in 1..Len(stream) :
        stream[i].item = None =>
            \A n \in SetBefore(i) : get_property_value(stream[i].after, n) = EmptyStr

\* the part of C22 that holds: after an absent value the slot of the
\* binding's own name is not set
C22_AbsentClearsOwnName ==
    \A i \in 1..Len(stream) :
        stream[i].item = None =>
            get_property_value(stream[i].after, stream[i].key[2]) = EmptyStr

\* ------ C23 ------

\* the call has returned reporting the property applied
ReturnedApplied == Called /\ ~probe.before.readonly /\ probe.panic = ""

\* the slot of combination k holds what this call writes there
HoldsWritten(k) ==
    LET prefixed_name == Concat(PrefixPairs[k][1], CalledName)
    IN  /\ prefixed_name \in DOMAIN probe.declaration.props
        /\ probe.declaration.props[prefixed_name] =
               [value |-> Concat(PrefixPairs[k][2], CalledValue),
                priority |-> CalledPriority]

\* C23: when set_css_property returns normally, some combination the engine
\* takes holds the value and priority of this call
C23_ReadbackIsThisWrite ==
    ReturnedApplied => \E k \in 1..Len(PrefixPairs) : Working(k) /\ HoldsWritten(k)

\* the part of C23 that holds: on a declaration with no form of the name
\* set, a normal return means this call's value is in the declaration
C23_ReadbackIsThisWriteOnFreshSlots == FreshSlots => C23_ReadbackIsThisWrite

\* ------ C24 ------

\* the outcome of call i is the one its fetch calls for
ResultMatchesFetch(call) ==
    /\ call.result[1] = "Ok" <=>
          (call.fetch = "resolved" /\ 200 <= call.status /\ call.status <= 299)
    /\ call.result[1] = "Ok" =>
          call.headers["X-Correlation-ID"] = to_string(call.result[2])
    /\ call.fetch = "rejected" <=> call.result = <<"Err", "RequestFailed">>
    /\ (call.fetch = "resolved" /\ ~(200 <= call.status /\ call.status <= 299)) <=>
          call.result = <<"Err", "ResponseIsNot2xx">>
    /\ call.fetch = "pending" <=> call.result = <<"pending">>

\* the headers of call i carry the session id, and the token of the getter
\* if and only if there is a getter and it returns one
HeadersMatchConnection(call) ==
    /\ call.headers["X-Session-ID"] = to_string(connection.session_id)
    /\ "X-Auth-Token" \in DOMAIN call.headers <=>
          (connection.auth_token_getter # None
             /\ connection.auth_token_getter[1] # None)
    /\ "X-Auth-Token" \in DOMAIN call.headers =>
          call.headers["X-Auth-Token"] = connection.auth_token_getter[1][1]

\* C24: send_up_msg returns Ok(cor_id) exactly when its fetch resolves with a
\* 2xx response, with the cor_id of its own X-Correlation-ID header; a
\* rejected fetch gives RequestFailed, a resolved non-2xx one ResponseIsNot2xx;
\* X-Session-ID is the session id of the connection and X-Auth-Token is set
\* exactly when a getter is configured and returns a token
C24_ResultAndHeaders ==
    \A i \in 1..Len(connection.calls) :
        /\ ResultMatchesFetch(connection.calls[i])
        /\ HeadersMatchConnection(connection.calls[i])

\* of two calls in flight the first returned Ok after the second had failed,
\* with a token in its headers
C24_Witness ==
    /\ Len(connection.calls) = 2
    /\ connection.calls[1].result = <<"Ok", 1>>
    /\ connection.calls[1].status = 204
    /\ connection.calls[2].result[1] = "Err"
    /\ "X-Auth-Token" \in DOMAIN connection.calls[1].headers

====
